---- MODULE Spec2Model ----
(***************************************************************************)
(* The separation invoker of the vocal-separator repository: the three     *)
(* entry points that run the external demucs tool against a scratch        *)
(* directory, look its output files up by name, and remove the scratch     *)
(* directory again.                                                        *)
(*                                                                         *)
(*   server.py  AudioVocalSeparatorAPI.predict / _separate_audio_two_stems *)
(*   test.py    separate_audio_two_stems                                   *)
(*   test.py    separate_audio                                             *)
(*                                                                         *)
(* Every invocation is a process; one step is one access to the shared     *)
(* file system (exists, mkdir, rmtree, the tool run, open/read, copy2)     *)
(* together with the local computation that follows it.                    *)
(***************************************************************************)
EXTENDS Naturals, Sequences, FiniteSets, TLC

(***************************************************************************)
(* Bounds of the model.                                                    *)
(***************************************************************************)
\* Number of invocation slots (callers that may be inside an entry point).
NumInv == 2
\* Number of names mkdtemp can draw from.
NumTmp == 2
\* File contents are the byte strings over 1..MaxByte of length 0..MaxLen.
MaxByte == 1
MaxLen == 1

Inv == 1..NumInv

(***************************************************************************)
(* Values.  An optional value is <<>> (absent) or <<v>>.                   *)
(***************************************************************************)
None == <<>>
Some(v) == <<v>>

Contents == UNION {[1..n -> 1..MaxByte] : n \in 0..MaxLen}

\* The three entry points.
Variants == {"server", "two_stems", "separate_audio"}

\* Values of target_stem used by the callers (test.py:150).
Stems == {"vocals", "drums"}

\* model="htdemucs" is the default everywhere and the only model used.
DefaultModel == "htdemucs"

\* f"no_{target_stem}" (server.py:87, test.py:216), on the stem vocabulary.
NoStem(s) == CASE s = "vocals" -> "no_vocals"
               [] s = "drums" -> "no_drums"
               [] s = "bass" -> "no_bass"
               [] OTHER -> "no_other"

\* 'vocals' not in file.stem (test.py:99).
ContainsVocals(n) == n \in {"vocals", "no_vocals"}

\* for bg_name in ["no_vocals", "accompaniment", "other"] (test.py:90).
BgNames == <<"no_vocals", "accompaniment", "other">>

\* Path("temp_demucs_output") (test.py:35, test.py:167): one fixed relative path.
FixedDir == <<"temp_demucs_output", 0>>
\* tempfile.mkdtemp(prefix="demucs_") (server.py:60): a name not in use.
TmpDir(k) == <<"demucs_", k>>
Paths == {FixedDir} \cup {TmpDir(k) : k \in 1..NumTmp}
NoPath == <<"", 0>>

\* Path(input_audio_path).stem: the invocations have distinct input files.
AudioName(i) == i

\* separated_dir = temp_dir / model / audio_name (server.py:78-80, test.py:201-203).
SeparatedDir(p, i) == <<p, DefaultModel, AudioName(i)>>

(***************************************************************************)
(* What one run of the external tool can do (a real demucs or a stub).     *)
(***************************************************************************)
StderrTexts == {"err_a", "err_b"}

\* All file maps over the names in D.
FileMaps(D) == UNION {[E -> Contents] : E \in SUBSET D}

\* A file of the directory that is neither the target nor the residual.
Decoy(s) == IF s = "vocals" THEN "drums" ELSE "vocals"

\* Two-stem mode: any of s.mp3, no_s.mp3, and possibly a further (empty) file.
TwoStemLayouts(s) ==
  {None} \cup {Some(f) : f \in FileMaps({s, NoStem(s)})}
         \cup {Some(f @@ (Decoy(s) :> <<>>)) : f \in FileMaps({s, NoStem(s)})}

\* Full separation: vocals and any of the other files the tool may leave.
FullNames ==
  {{}, {"no_vocals"}, {"accompaniment"}, {"other"}, {"drums"}, {"bass"},
   {"accompaniment", "other"}, {"drums", "bass"}}
FullLayouts ==
  {None} \cup {Some(f) : f \in FileMaps({"vocals", "other"})}
         \cup {Some([n \in E \cup V |-> <<>>]) : E \in FullNames, V \in SUBSET {"vocals"}}

Layouts(v, s) == IF v = "separate_audio" THEN FullLayouts ELSE TwoStemLayouts(s)

\* sp.run(cmd, capture_output=True, text=True): the exit status, the captured
\* error stream, what the tool left in the output directory; or sp.run raises.
ToolOutcomes(v, s) ==
       {[raised |-> FALSE, returncode |-> 0, stderr |-> "", lay |-> l] : l \in Layouts(v, s)}
  \cup {[raised |-> FALSE, returncode |-> 1, stderr |-> e, lay |-> l] :
           e \in StderrTexts, l \in {None, Some([n \in {s, NoStem(s)} |-> <<>>])}}
  \cup {[raised |-> TRUE, returncode |-> 0, stderr |-> "", lay |-> None]}

NoResult == [raised |-> FALSE, returncode |-> 0, stderr |-> "", lay |-> None]

(***************************************************************************)
(* Outcomes of an invocation.                                              *)
(***************************************************************************)
NoMsg == [tmpl |-> "", stem |-> "", dir |-> None, text |-> ""]

\* f"Demucs separation failed: {result.stderr}" (server.py:75);
\* print("Error: Demucs separation failed."); print("STDERR:", result.stderr) (test.py:193-194).
MsgSeparationFailed(text) == [NoMsg EXCEPT !.tmpl = "separation_failed", !.text = text]
\* f"Expected output directory {separated_dir} not found" (server.py:83, test.py:206).
MsgDirNotFound(d) == [NoMsg EXCEPT !.tmpl = "dir_not_found", !.dir = Some(d)]
\* f"Target stem ({target_stem}) not found in output" (server.py:90).
MsgTargetNotFound(s) == [NoMsg EXCEPT !.tmpl = "stem_not_found", !.stem = s]
\* f"Other stem (no_{target_stem}) not found in output" (server.py:93).
MsgOtherNotFound(s) == [NoMsg EXCEPT !.tmpl = "stem_not_found", !.stem = NoStem(s)]
\* print(f"Error: Input file {input_audio_path} does not exist.") (test.py:31, test.py:163).
MsgInputMissing == [NoMsg EXCEPT !.tmpl = "input_missing"]
\* The message of an exception of the runtime (OSError and its subclasses).
MsgOs(name) == [NoMsg EXCEPT !.tmpl = name]

NoOutcome == [kind |-> "none", ok |-> FALSE, value |-> <<>>, msg |-> NoMsg]
\* return vocal_data, bg_data (server.py:103).
ReturnPair(a, b) == [kind |-> "return", ok |-> TRUE, value |-> <<a, b>>, msg |-> NoMsg]
\* return True / return False with the diagnostic printed before it (test.py).
ReturnBool(b, m) == [kind |-> "return", ok |-> b, value |-> <<>>, msg |-> m]
\* raise Exception(msg), or an exception of the runtime.
Raise(m) == [kind |-> "raise", ok |-> FALSE, value |-> <<>>, msg |-> m]

(***************************************************************************)
(* State.                                                                  *)
(***************************************************************************)
VARIABLES
  pc,            \* where each invocation stands
  call,          \* its arguments: entry point and target_stem
  input_file,    \* whether its input file exists on disk
  temp_dir,      \* its local temp_dir
  dirs,          \* file system: the scratch directories that exist
  sep,           \* file system: <<scratch, audio_name>> -> file map of that output directory
  result,        \* its local result of sp.run
  vocal_data,    \* server.py: bytes read from target_file
  bg_data,       \* server.py: bytes read from other_file
  output_vocal,  \* test.py: the file at output_vocal_path as written by this call
  output_bg,     \* test.py: the file at output_bg_path as written by this call
  bg_file,       \* test.py separate_audio: the background file found
  outcome,       \* the pending (inside finally) or final return value or exception
  created,       \* history: this invocation created its scratch directory
  launched,      \* history: this invocation started the subprocess
  lookups        \* history: output paths this invocation looked up or read

vars == <<pc, call, input_file, temp_dir, dirs, sep, result, vocal_data, bg_data,
          output_vocal, output_bg, bg_file, outcome, created, launched, lookups>>

locals == <<vocal_data, bg_data, output_vocal, output_bg, bg_file>>

NoCall == [variant |-> "server", target_stem |-> "vocals"]

Init ==
  /\ pc = [i \in Inv |-> "idle"]
  /\ call = [i \in Inv |-> NoCall]
  /\ input_file = [i \in Inv |-> FALSE]
  /\ temp_dir = [i \in Inv |-> NoPath]
  \* a scratch directory left behind by an earlier process may be there
  /\ dirs \in {{}, {FixedDir}}
  /\ sep = <<>>
  /\ result = [i \in Inv |-> NoResult]
  /\ vocal_data = [i \in Inv |-> None]
  /\ bg_data = [i \in Inv |-> None]
  /\ output_vocal = [i \in Inv |-> None]
  /\ output_bg = [i \in Inv |-> None]
  /\ bg_file = [i \in Inv |-> None]
  /\ outcome = [i \in Inv |-> NoOutcome]
  /\ created = [i \in Inv |-> FALSE]
  /\ launched = [i \in Inv |-> FALSE]
  /\ lookups = [i \in Inv |-> {}]

(***************************************************************************)
(* File system operations.                                                 *)
(***************************************************************************)
\* Path.exists() of a scratch directory.
DirExists(p) == p \in dirs
\* separated_dir.exists().
SepExists(p, i) == p \in dirs /\ <<p, i>> \in DOMAIN sep
\* (separated_dir / name).exists().
FileExists(p, i, n) == SepExists(p, i) /\ n \in DOMAIN sep[<<p, i>>]
\* The bytes of separated_dir / name.
FileBytes(p, i, n) == sep[<<p, i>>][n]

\* shutil.rmtree(p): the directory and everything below it.
RmtreeDirs(p) == dirs \ {p}
RmtreeSep(p) == [k \in {k \in DOMAIN sep : k[1] # p} |-> sep[k]]

\* The tool writes its files below -o <p>, creating directories as needed.
ToolDirs(p, lay) == IF lay = None THEN dirs ELSE dirs \cup {p}
ToolSep(p, i, lay) ==
  IF lay = None THEN sep
  ELSE LET old == IF <<p, i>> \in DOMAIN sep /\ p \in dirs THEN sep[<<p, i>>] ELSE <<>>
       IN  (<<p, i>> :> (lay[1] @@ old)) @@ sep

(***************************************************************************)
(* How each entry point reports a failure and a success.                   *)
(***************************************************************************)
\* server.py raises; test.py prints the diagnostic and returns False.
Fail(v, m) == IF v = "server" THEN Raise(m) ELSE ReturnBool(FALSE, m)

\* except Exception as e (server.py:105-107 re-raises, test.py:245-247 returns False).
Caught(v, name) == Fail(v, MsgOs(name))

\* RunVerdict with the exit status never looked at.
RunVerdictIgnoresStatus(v, res) ==
  IF res.raised THEN Caught(v, "OSError") ELSE NoOutcome

\* if result.returncode != 0 (server.py:74-75, test.py:62-65, test.py:192-195).
\* NoOutcome: the invocation goes on to look for the output.
RunVerdict(v, res) ==
  IF res.raised THEN Caught(v, "OSError")
  ELSE IF res.returncode # 0 THEN Fail(v, MsgSeparationFailed(res.stderr))
  ELSE NoOutcome

\* server.py:82-83, test.py:76-82, test.py:205-211.
DirVerdict(v, d) == Fail(v, MsgDirNotFound(d))

\* server.py:89-90; test.py:114, test.py:229 (after "Files found in {separated_dir}:").
TargetVerdict(v, s, d) ==
  IF v = "server" THEN Raise(MsgTargetNotFound(s))
  ELSE ReturnBool(FALSE, [MsgTargetNotFound(s) EXCEPT !.dir = Some(d)])

\* server.py:92-93; test.py:122, test.py:237.
OtherVerdict(v, s, d) ==
  IF v = "server" THEN Raise(MsgOtherNotFound(s))
  ELSE ReturnBool(FALSE, [MsgOtherNotFound(s) EXCEPT !.dir = Some(d)])

\* ServerResult with the two buffers in the wrong order.
ServerResultSwapped(v, b) == ReturnPair(b, v)

\* return vocal_data, bg_data (server.py:103).
ServerResult(v, b) == ReturnPair(v, b)

\* server.py:41-49: vocal_data, bg_data = self._separate_audio_two_stems(...);
\* return {"vocal_audio": vocal_data, "bg_audio": bg_data, "target_stem": target_stem}.
PredictResponse(o, s) == [vocal_audio |-> o.value[1], bg_audio |-> o.value[2], target_stem |-> s]

\* target_file / vocal_file (server.py:86, test.py:86, test.py:215).
TargetName(c) == IF c.variant = "separate_audio" THEN "vocals" ELSE c.target_stem
\* other_file (server.py:87, test.py:216); bg_file of separate_audio, if one was found.
OtherName(c, bg) == IF c.variant = "separate_audio" THEN bg ELSE Some(NoStem(c.target_stem))

(***************************************************************************)
(* Control flow shared by the entry points.                                *)
(***************************************************************************)
\* Leave the try block with outcome o pending: the finally clause runs next.
GoFinally(i, o) ==
  /\ pc' = [pc EXCEPT ![i] = "fin_exists"]
  /\ outcome' = [outcome EXCEPT ![i] = o]

\* Leave the entry point with outcome o: returned or raised to the caller.
Conclude(i, o) ==
  /\ pc' = [pc EXCEPT ![i] = "done"]
  /\ outcome' = [outcome EXCEPT ![i] = o]

Quiescent == \A j \in Inv : pc[j] = "idle"

(***************************************************************************)
(* Entering an entry point.                                                *)
(***************************************************************************)
\* A caller enters one of the entry points with a target stem of S and the
\* path of an input file that exists or not (P).
Start(i, S, P) ==
  /\ pc[i] = "idle"
  /\ \E v \in Variants, s \in S, present \in P :
       /\ v = "separate_audio" => s = "vocals"
       /\ call' = [call EXCEPT ![i] = [variant |-> v, target_stem |-> s]]
       /\ input_file' = [input_file EXCEPT ![i] = present]
       /\ pc' = [pc EXCEPT ![i] = IF v = "server" THEN "s_mkdtemp" ELSE "l_validate"]
  /\ UNCHANGED <<temp_dir, dirs, sep, result, locals, outcome, created, launched, lookups>>

\* A call made while no other invocation is in flight.
StartSeq(i) == Quiescent /\ Start(i, Stems, BOOLEAN)

\* A call made at any time (the callers are threads or processes of their
\* own); the concurrent callers all ask for the default stem of an existing file.
StartConc(i) == Start(i, {"vocals"}, {TRUE})

\* test.py:28-32, test.py:160-164: if not input_path.exists(): return False.
LibValidate(i) ==
  /\ pc[i] = "l_validate"
  /\ IF input_file[i]
       THEN /\ pc' = [pc EXCEPT ![i] = "l_setup_exists"]
            /\ UNCHANGED outcome
       ELSE Conclude(i, ReturnBool(FALSE, MsgInputMissing))
  /\ UNCHANGED <<call, input_file, temp_dir, dirs, sep, result, locals, created, launched, lookups>>

(***************************************************************************)
(* Creating the scratch directory.                                         *)
(***************************************************************************)
\* tempfile.mkdtemp creates a directory under a name no existing entry has.
\* The names are interchangeable: the model takes the first free one.
Mkdtemp(existing) ==
  LET free == {k \in 1..NumTmp : TmpDir(k) \notin existing}
  IN  TmpDir(CHOOSE k \in free : \A m \in free : k <= m)

\* server.py:60: temp_dir = Path(tempfile.mkdtemp(prefix="demucs_")).
ServerMkdtemp(i) ==
  /\ pc[i] = "s_mkdtemp"
  /\ \E k \in 1..NumTmp : TmpDir(k) \notin dirs
  /\ temp_dir' = [temp_dir EXCEPT ![i] = Mkdtemp(dirs)]
  /\ dirs' = dirs \cup {Mkdtemp(dirs)}
  /\ created' = [created EXCEPT ![i] = TRUE]
  /\ pc' = [pc EXCEPT ![i] = "run"]
  /\ UNCHANGED <<call, input_file, sep, result, locals, outcome, launched, lookups>>

\* test.py:35-36, test.py:167-168: temp_dir = Path("temp_demucs_output"); if temp_dir.exists().
LibSetupExists(i) ==
  /\ pc[i] = "l_setup_exists"
  /\ temp_dir' = [temp_dir EXCEPT ![i] = FixedDir]
  /\ pc' = [pc EXCEPT ![i] = IF DirExists(FixedDir) THEN "l_setup_rmtree" ELSE "l_mkdir"]
  /\ UNCHANGED <<call, input_file, dirs, sep, result, locals, outcome, created, launched, lookups>>

\* test.py:37, test.py:169: shutil.rmtree(temp_dir), outside the try block: an
\* exception goes to the caller.
LibSetupRmtree(i) ==
  /\ pc[i] = "l_setup_rmtree"
  /\ IF DirExists(temp_dir[i])
       THEN /\ dirs' = RmtreeDirs(temp_dir[i])
            /\ sep' = RmtreeSep(temp_dir[i])
            /\ pc' = [pc EXCEPT ![i] = "l_mkdir"]
            /\ UNCHANGED outcome
       ELSE /\ Conclude(i, Raise(MsgOs("FileNotFoundError")))
            /\ UNCHANGED <<dirs, sep>>
  /\ UNCHANGED <<call, input_file, temp_dir, result, locals, created, launched, lookups>>

\* test.py:38, test.py:170: temp_dir.mkdir(), outside the try block.
LibMkdir(i) ==
  /\ pc[i] = "l_mkdir"
  /\ IF DirExists(temp_dir[i])
       THEN /\ Conclude(i, Raise(MsgOs("FileExistsError")))
            /\ UNCHANGED <<dirs, created>>
       ELSE /\ dirs' = dirs \cup {temp_dir[i]}
            /\ created' = [created EXCEPT ![i] = TRUE]
            /\ pc' = [pc EXCEPT ![i] = "run"]
            /\ UNCHANGED outcome
  /\ UNCHANGED <<call, input_file, temp_dir, sep, result, locals, launched, lookups>>

(***************************************************************************)
(* Running the tool.                                                       *)
(***************************************************************************)
\* server.py:64-75, test.py:42-65, test.py:174-195: build cmd, sp.run, check
\* result.returncode.
RunTool(i) ==
  /\ pc[i] = "run"
  /\ \E o \in ToolOutcomes(call[i].variant, call[i].target_stem) :
       /\ result' = [result EXCEPT ![i] = o]
       /\ dirs' = ToolDirs(temp_dir[i], o.lay)
       /\ sep' = ToolSep(temp_dir[i], i, o.lay)
       /\ IF RunVerdict(call[i].variant, o) = NoOutcome
            THEN /\ pc' = [pc EXCEPT ![i] = "dir"]
                 /\ UNCHANGED outcome
            ELSE GoFinally(i, RunVerdict(call[i].variant, o))
  /\ launched' = [launched EXCEPT ![i] = TRUE]
  /\ UNCHANGED <<call, input_file, temp_dir, locals, created, lookups>>

(***************************************************************************)
(* Locating the output.                                                    *)
(***************************************************************************)
\* server.py:78-83, test.py:72-82, test.py:201-211: if not separated_dir.exists().
CheckDir(i) ==
  /\ pc[i] = "dir"
  /\ lookups' = [lookups EXCEPT ![i] = @ \cup {"separated_dir"}]
  /\ IF SepExists(temp_dir[i], i)
       THEN /\ pc' = [pc EXCEPT ![i] = CASE call[i].variant = "server" -> "s_target"
                                         [] call[i].variant = "two_stems" -> "l_list"
                                         [] OTHER -> "a_find_bg"]
            /\ UNCHANGED outcome
       ELSE GoFinally(i, DirVerdict(call[i].variant, SeparatedDir(temp_dir[i], i)))
  /\ UNCHANGED <<call, input_file, temp_dir, dirs, sep, result, locals, created, launched>>

\* server.py:86, server.py:89-90: if not target_file.exists(): raise.
ServerTargetExists(i) ==
  /\ pc[i] = "s_target"
  /\ lookups' = [lookups EXCEPT ![i] = @ \cup {"target_file"}]
  /\ IF FileExists(temp_dir[i], i, TargetName(call[i]))
       THEN /\ pc' = [pc EXCEPT ![i] = "s_other"]
            /\ UNCHANGED outcome
       ELSE GoFinally(i, TargetVerdict(call[i].variant, call[i].target_stem,
                                       SeparatedDir(temp_dir[i], i)))
  /\ UNCHANGED <<call, input_file, temp_dir, dirs, sep, result, locals, created, launched>>

\* server.py:87, server.py:92-93: if not other_file.exists(): raise.
ServerOtherExists(i) ==
  /\ pc[i] = "s_other"
  /\ lookups' = [lookups EXCEPT ![i] = @ \cup {"other_file"}]
  /\ IF FileExists(temp_dir[i], i, OtherName(call[i], bg_file[i])[1])
       THEN /\ pc' = [pc EXCEPT ![i] = "s_read_target"]
            /\ UNCHANGED outcome
       ELSE GoFinally(i, OtherVerdict(call[i].variant, call[i].target_stem,
                                      SeparatedDir(temp_dir[i], i)))
  /\ UNCHANGED <<call, input_file, temp_dir, dirs, sep, result, locals, created, launched>>

\* server.py:96-97: with open(target_file, 'rb') as f: vocal_data = f.read().
ServerReadTarget(i) ==
  /\ pc[i] = "s_read_target"
  /\ lookups' = [lookups EXCEPT ![i] = @ \cup {"target_file"}]
  /\ IF FileExists(temp_dir[i], i, TargetName(call[i]))
       THEN /\ vocal_data' = [vocal_data EXCEPT ![i] =
                                Some(FileBytes(temp_dir[i], i, TargetName(call[i])))]
            /\ pc' = [pc EXCEPT ![i] = "s_read_other"]
            /\ UNCHANGED outcome
       ELSE /\ GoFinally(i, Caught(call[i].variant, "FileNotFoundError"))
            /\ UNCHANGED vocal_data
  /\ UNCHANGED <<call, input_file, temp_dir, dirs, sep, result, bg_data, output_vocal,
                 output_bg, bg_file, created, launched>>

\* server.py:99-103: with open(other_file, 'rb') as f: bg_data = f.read(); return.
ServerReadOther(i) ==
  /\ pc[i] = "s_read_other"
  /\ lookups' = [lookups EXCEPT ![i] = @ \cup {"other_file"}]
  /\ IF FileExists(temp_dir[i], i, OtherName(call[i], bg_file[i])[1])
       THEN LET b == FileBytes(temp_dir[i], i, OtherName(call[i], bg_file[i])[1])
            IN  /\ bg_data' = [bg_data EXCEPT ![i] = Some(b)]
                /\ GoFinally(i, ServerResult(vocal_data[i][1], b))
       ELSE /\ GoFinally(i, Caught(call[i].variant, "FileNotFoundError"))
            /\ UNCHANGED bg_data
  /\ UNCHANGED <<call, input_file, temp_dir, dirs, sep, result, vocal_data, output_vocal,
                 output_bg, bg_file, created, launched>>

\* test.py:89-101: the first of no_vocals, accompaniment, other that exists;
\* failing that, any file of the directory without 'vocals' in its name.
FirstBg(p, i) ==
  LET idx == {k \in 1..Len(BgNames) : FileExists(p, i, BgNames[k])}
  IN  IF idx = {} THEN None
      ELSE Some(BgNames[CHOOSE k \in idx : \A m \in idx : k <= m])

FallbackBg(p, i) == {n \in DOMAIN sep[<<p, i>>] : ~ContainsVocals(n)}

AudioFindBg(i) ==
  /\ pc[i] = "a_find_bg"
  /\ lookups' = [lookups EXCEPT ![i] = @ \cup {"bg_file"}]
  /\ IF FirstBg(temp_dir[i], i) # None
       THEN /\ bg_file' = [bg_file EXCEPT ![i] = FirstBg(temp_dir[i], i)]
            /\ pc' = [pc EXCEPT ![i] = "l_list"]
            /\ UNCHANGED outcome
       ELSE IF ~SepExists(temp_dir[i], i)
         \* separated_dir.iterdir() raises; the except clause returns False
         THEN /\ GoFinally(i, Caught(call[i].variant, "FileNotFoundError"))
              /\ UNCHANGED bg_file
         ELSE /\ IF FallbackBg(temp_dir[i], i) = {}
                   THEN UNCHANGED bg_file
                   ELSE \E n \in FallbackBg(temp_dir[i], i) :
                          bg_file' = [bg_file EXCEPT ![i] = Some(n)]
              /\ pc' = [pc EXCEPT ![i] = "l_list"]
              /\ UNCHANGED outcome
  /\ UNCHANGED <<call, input_file, temp_dir, dirs, sep, result, vocal_data, bg_data,
                 output_vocal, output_bg, created, launched>>

\* test.py:103-106, test.py:218-221 (verbose): for file in separated_dir.iterdir().
LibList(i) ==
  /\ pc[i] = "l_list"
  /\ lookups' = [lookups EXCEPT ![i] = @ \cup {"separated_dir"}]
  /\ IF SepExists(temp_dir[i], i)
       THEN /\ pc' = [pc EXCEPT ![i] = "l_target"]
            /\ UNCHANGED outcome
       ELSE GoFinally(i, Caught(call[i].variant, "FileNotFoundError"))
  /\ UNCHANGED <<call, input_file, temp_dir, dirs, sep, result, locals, created, launched>>

\* test.py:109, test.py:113-115, test.py:224, test.py:228-230: if target_file.exists().
LibTargetExists(i) ==
  /\ pc[i] = "l_target"
  /\ lookups' = [lookups EXCEPT ![i] = @ \cup {"target_file"}]
  /\ IF FileExists(temp_dir[i], i, TargetName(call[i]))
       THEN /\ pc' = [pc EXCEPT ![i] = "l_copy_target"]
            /\ UNCHANGED outcome
       ELSE GoFinally(i, TargetVerdict(call[i].variant, TargetName(call[i]),
                                       SeparatedDir(temp_dir[i], i)))
  /\ UNCHANGED <<call, input_file, temp_dir, dirs, sep, result, locals, created, launched>>

\* test.py:110, test.py:225: shutil.copy2(target_file, output_vocal_path).
LibCopyTarget(i) ==
  /\ pc[i] = "l_copy_target"
  /\ lookups' = [lookups EXCEPT ![i] = @ \cup {"target_file"}]
  /\ IF FileExists(temp_dir[i], i, TargetName(call[i]))
       THEN /\ output_vocal' = [output_vocal EXCEPT ![i] =
                                  Some(FileBytes(temp_dir[i], i, TargetName(call[i])))]
            /\ pc' = [pc EXCEPT ![i] = "l_other"]
            /\ UNCHANGED outcome
       ELSE /\ GoFinally(i, Caught(call[i].variant, "FileNotFoundError"))
            /\ UNCHANGED output_vocal
  /\ UNCHANGED <<call, input_file, temp_dir, dirs, sep, result, vocal_data, bg_data,
                 output_bg, bg_file, created, launched>>

\* test.py:117, test.py:121-123, test.py:232, test.py:236-238:
\* if other_file.exists() / if bg_file and bg_file.exists().
LibOtherExists(i) ==
  /\ pc[i] = "l_other"
  /\ lookups' = [lookups EXCEPT ![i] = @ \cup {"other_file"}]
  /\ IF /\ OtherName(call[i], bg_file[i]) # None
        /\ FileExists(temp_dir[i], i, OtherName(call[i], bg_file[i])[1])
       THEN /\ pc' = [pc EXCEPT ![i] = "l_copy_other"]
            /\ UNCHANGED outcome
       ELSE GoFinally(i, OtherVerdict(call[i].variant, call[i].target_stem,
                                      SeparatedDir(temp_dir[i], i)))
  /\ UNCHANGED <<call, input_file, temp_dir, dirs, sep, result, locals, created, launched>>

\* test.py:118, test.py:128, test.py:233, test.py:243:
\* shutil.copy2(other_file, output_bg_path); return True.
LibCopyOther(i) ==
  /\ pc[i] = "l_copy_other"
  /\ lookups' = [lookups EXCEPT ![i] = @ \cup {"other_file"}]
  /\ IF FileExists(temp_dir[i], i, OtherName(call[i], bg_file[i])[1])
       THEN /\ output_bg' = [output_bg EXCEPT ![i] =
                               Some(FileBytes(temp_dir[i], i, OtherName(call[i], bg_file[i])[1]))]
            /\ GoFinally(i, ReturnBool(TRUE, NoMsg))
       ELSE /\ GoFinally(i, Caught(call[i].variant, "FileNotFoundError"))
            /\ UNCHANGED output_bg
  /\ UNCHANGED <<call, input_file, temp_dir, dirs, sep, result, vocal_data, bg_data,
                 output_vocal, bg_file, created, launched>>

(***************************************************************************)
(* The finally clause.                                                     *)
(***************************************************************************)
\* FinallyExists as it would be with the cleanup at the end of the try block
\* instead of in a finally clause: it runs on the successful path only.
FinallyOnSuccessOnly(i) ==
  /\ pc[i] = "fin_exists"
  /\ IF DirExists(temp_dir[i]) /\ outcome[i].ok
       THEN /\ pc' = [pc EXCEPT ![i] = "fin_rmtree"]
            /\ UNCHANGED outcome
       ELSE Conclude(i, outcome[i])
  /\ UNCHANGED <<call, input_file, temp_dir, dirs, sep, result, locals, created, launched, lookups>>

\* server.py:109-111, test.py:134-136, test.py:249-251: if temp_dir.exists().
FinallyExists(i) ==
  /\ pc[i] = "fin_exists"
  /\ IF DirExists(temp_dir[i])
       THEN /\ pc' = [pc EXCEPT ![i] = "fin_rmtree"]
            /\ UNCHANGED outcome
       ELSE Conclude(i, outcome[i])
  /\ UNCHANGED <<call, input_file, temp_dir, dirs, sep, result, locals, created, launched, lookups>>

\* server.py:112, test.py:137, test.py:252: shutil.rmtree(temp_dir).  An
\* exception raised inside finally replaces the pending return or exception.
FinallyRmtree(i) ==
  /\ pc[i] = "fin_rmtree"
  /\ IF DirExists(temp_dir[i])
       THEN /\ dirs' = RmtreeDirs(temp_dir[i])
            /\ sep' = RmtreeSep(temp_dir[i])
            /\ Conclude(i, outcome[i])
       ELSE /\ Conclude(i, Raise(MsgOs("FileNotFoundError")))
            /\ UNCHANGED <<dirs, sep>>
  /\ UNCHANGED <<call, input_file, temp_dir, result, locals, created, launched, lookups>>

\* The caller has taken the result; the slot is free for the next call.
Reset(i) ==
  /\ pc[i] = "done"
  /\ pc' = [pc EXCEPT ![i] = "idle"]
  /\ call' = [call EXCEPT ![i] = NoCall]
  /\ input_file' = [input_file EXCEPT ![i] = FALSE]
  /\ temp_dir' = [temp_dir EXCEPT ![i] = NoPath]
  /\ result' = [result EXCEPT ![i] = NoResult]
  /\ vocal_data' = [vocal_data EXCEPT ![i] = None]
  /\ bg_data' = [bg_data EXCEPT ![i] = None]
  /\ output_vocal' = [output_vocal EXCEPT ![i] = None]
  /\ output_bg' = [output_bg EXCEPT ![i] = None]
  /\ bg_file' = [bg_file EXCEPT ![i] = None]
  /\ outcome' = [outcome EXCEPT ![i] = NoOutcome]
  /\ created' = [created EXCEPT ![i] = FALSE]
  /\ launched' = [launched EXCEPT ![i] = FALSE]
  /\ lookups' = [lookups EXCEPT ![i] = {}]
  /\ UNCHANGED <<dirs, sep>>

(***************************************************************************)
(* A file system that refuses to remove the directory (a file still open   *)
(* on Windows, a permission change): shutil.rmtree raises OSError and the  *)
(* directory stays.                                                        *)
(***************************************************************************)
\* server.py:112, test.py:137, test.py:252, with rmtree failing on the
\* directory itself after emptying it.
FinallyRmtreeFails(i) ==
  /\ pc[i] = "fin_rmtree"
  /\ DirExists(temp_dir[i])
  /\ sep' = RmtreeSep(temp_dir[i])
  /\ Conclude(i, Raise(MsgOs("OSError")))
  /\ UNCHANGED <<call, input_file, temp_dir, dirs, result, locals, created, launched, lookups>>

\* test.py:37, test.py:169, with rmtree failing.
LibSetupRmtreeFails(i) ==
  /\ pc[i] = "l_setup_rmtree"
  /\ DirExists(temp_dir[i])
  /\ Conclude(i, Raise(MsgOs("OSError")))
  /\ UNCHANGED <<call, input_file, temp_dir, dirs, sep, result, locals, created, launched, lookups>>

(***************************************************************************)
(* Specifications.                                                         *)
(***************************************************************************)
Step(i) ==
  \/ LibValidate(i) \/ ServerMkdtemp(i) \/ LibSetupExists(i) \/ LibSetupRmtree(i)
  \/ LibMkdir(i) \/ RunTool(i) \/ CheckDir(i)
  \/ ServerTargetExists(i) \/ ServerOtherExists(i) \/ ServerReadTarget(i) \/ ServerReadOther(i)
  \/ AudioFindBg(i) \/ LibList(i) \/ LibTargetExists(i) \/ LibCopyTarget(i)
  \/ LibOtherExists(i) \/ LibCopyOther(i)
  \/ FinallyExists(i) \/ FinallyRmtree(i) \/ Reset(i)

\* One invocation at a time.
NextSeq == \E i \in Inv : StartSeq(i) \/ Step(i)
SpecSeq == Init /\ [][NextSeq]_vars

\* Invocations run concurrently and share the working directory.
NextConc == \E i \in Inv : StartConc(i) \/ Step(i)
SpecConc == Init /\ [][NextConc]_vars

\* One invocation at a time, on a file system where rmtree may fail.
NextFault == \E i \in Inv : StartSeq(i) \/ Step(i) \/ FinallyRmtreeFails(i) \/ LibSetupRmtreeFails(i)
SpecFault == Init /\ [][NextFault]_vars

(***************************************************************************)
(* Properties.                                                             *)
(***************************************************************************)
Done(i) == pc[i] = "done"

\* The tool ran to completion and exited with status 0 / with another status.
ToolSucceeded(i) == launched[i] /\ ~result[i].raised /\ result[i].returncode = 0
ToolFailed(i) == launched[i] /\ ~result[i].raised /\ result[i].returncode # 0

\* What the tool left at <scratch>/<model>/<input-stem>/<n>.mp3, if anything.
Wrote(i, n) == result[i].lay # None /\ n \in DOMAIN result[i].lay[1]
WroteBytes(i, n) == result[i].lay[1][n]

\* Between creating its scratch directory and its last read or copy.
InFlight(i) ==
  /\ created[i]
  /\ pc[i] \in {"run", "dir", "s_target", "s_other", "s_read_target", "s_read_other",
                "a_find_bg", "l_list", "l_target", "l_copy_target", "l_other", "l_copy_other"}

\* C1: an invocation that created a scratch directory and has returned or
\* raised, whatever its outcome, has left no scratch directory behind.
C1_ScratchRemoved ==
  \A i \in Inv : Done(i) /\ created[i] => ~DirExists(temp_dir[i])

\* C1 case: the tool left files and exited non-zero, and the invocation is over.
C1_Witness ==
  \E i \in Inv : Done(i) /\ created[i] /\ ToolFailed(i) /\ result[i].lay # None

\* C2: two invocations in flight at once never have the same scratch
\* directory, and the scratch directory of an invocation in flight is never
\* removed under it.
C2_NoCollision ==
  \A i \in Inv : InFlight(i) =>
    /\ DirExists(temp_dir[i])
    /\ \A j \in Inv \ {i} : InFlight(j) => temp_dir[j] # temp_dir[i]

C4_OutputMissing ==
  \A i \in Inv :
    /\ Done(i) /\ ToolSucceeded(i) /\ call[i].variant # "separate_audio"
    /\ ~(Wrote(i, call[i].target_stem) /\ Wrote(i, NoStem(call[i].target_stem)))
    => /\ ~outcome[i].ok
       /\ outcome[i].msg.dir = Some(SeparatedDir(temp_dir[i], i))
       /\ result[i].lay # None =>
            outcome[i].msg.stem = (IF Wrote(i, call[i].target_stem)
                                     THEN NoStem(call[i].target_stem)
                                     ELSE call[i].target_stem)

\* C5: when the tool exits 0 having written A to s.mp3 and B to no_s.mp3, the
\* invocation hands back exactly A as the target and B as the residual:
\* server.py as the returned pair (and predict's response), test.py
\* separate_audio_two_stems as the two destination files with True.
C5_ExactBytes ==
  \A i \in Inv :
    /\ Done(i) /\ ToolSucceeded(i) /\ call[i].variant # "separate_audio"
    /\ Wrote(i, call[i].target_stem) /\ Wrote(i, NoStem(call[i].target_stem))
    => LET A == WroteBytes(i, call[i].target_stem)
           B == WroteBytes(i, NoStem(call[i].target_stem))
       IN  /\ outcome[i].kind = "return" /\ outcome[i].ok
           /\ call[i].variant = "server" =>
                /\ outcome[i].value = <<A, B>>
                /\ PredictResponse(outcome[i], call[i].target_stem).vocal_audio = A
                /\ PredictResponse(outcome[i], call[i].target_stem).bg_audio = B
           /\ call[i].variant = "two_stems" =>
                /\ output_vocal[i] = Some(A)
                /\ output_bg[i] = Some(B)

\* C5 case: server.py, target stem "drums", different bytes in the two files
\* and a third file beside them.
C5_Witness ==
  \E i \in Inv :
    /\ Done(i) /\ ToolSucceeded(i) /\ call[i].variant = "server"
    /\ call[i].target_stem = "drums"
    /\ Wrote(i, "drums") /\ Wrote(i, "no_drums") /\ Wrote(i, "vocals")
    /\ WroteBytes(i, "drums") # WroteBytes(i, "no_drums")

\* C6: no invocation whose input file is missing starts the subprocess, and
\* such an invocation ends in an input error.
C6_InputChecked ==
  \A i \in Inv : ~input_file[i] =>
    /\ ~launched[i]
    /\ Done(i) => outcome[i].msg.tmpl = "input_missing"

\* C7: leaving the finally clause never changes a pending failure: a failure
\* of the cleanup is not raised in its place.
C7_PrimaryKept ==
  [][\A i \in Inv :
       pc[i] = "fin_rmtree" /\ pc'[i] = "done" /\ ~outcome[i].ok => outcome'[i] = outcome[i]]_vars

\* C8: a successful return of server.py holds two non-empty buffers.
C8_NonEmpty ==
  \A i \in Inv :
    Done(i) /\ call[i].variant = "server" /\ outcome[i].kind = "return"
    => outcome[i].value[1] # <<>> /\ outcome[i].value[2] # <<>>

\* C9: the entry points of test.py never raise; they return True exactly when
\* both destination files were written, and False otherwise.
C9_BooleanOutcome ==
  \A i \in Inv : Done(i) /\ call[i].variant # "server" =>
    /\ outcome[i].kind = "return"
    /\ outcome[i].ok <=> (output_vocal[i] # None /\ output_bg[i] # None)

\* C10: a call of test.py that returns False has written neither destination file.
C10_NoPartialOutput ==
  \A i \in Inv :
    Done(i) /\ call[i].variant # "server" /\ outcome[i].kind = "return" /\ ~outcome[i].ok
    => output_vocal[i] = None /\ output_bg[i] = None

====
